---- MODULE Spec2Model ----
(***************************************************************************)
(* A model of src/app.py: a Flask application with three handlers         *)
(* (submit, stats, list_submissions) over one PostgreSQL table, feedback,  *)
(* reached through the context manager get_db.                            *)
(*                                                                         *)
(* Each request runs in a slot of req.  The local prefix of a handler      *)
(* (authorization, content type, parsing, field validation) and the        *)
(* connect are one step; every statement that reads or writes the shared   *)
(* table is a step of its own, so that the transactions of concurrent      *)
(* requests interleave at INSERT and COMMIT.                               *)
(***************************************************************************)
EXTENDS Integers, Sequences, FiniteSets, TLC

VARIABLES API_SECRET, schema, feedback, seq, startup, req, successes

vars == <<API_SECRET, schema, feedback, seq, startup, req, successes>>

(* ------------------------------ bounds -------------------------------- *)

\* Request slots: the requests that can be in flight at the same time.
MaxReq == 2
\* userId values 1..MaxUserId (0 is the falsy one).
MaxUserId == 2
\* Values drawn from the SERIAL sequence of feedback.id in one behaviour.
MaxSeq == 3

\* LIMIT of the list query.
ListLimit == 100

Req == 1..MaxReq

(* ------------------------- Python and JSON values ---------------------- *)

\* An optional string (os.environ.get, request.headers.get): None or a string.
None == << >>
Some(s) == << s >>

\* API_SECRET as the environment can set it: unset, empty, set.
Secrets == {None, Some(""), Some("s3cret")}
\* X-API-Secret as a client can send it: absent, the secret, another string.
Headers == {None, Some("s3cret"), Some("wrong")}

\* A member of a JSON object: absent, null, a number, a string.
JAbsent == [t |-> "absent", n |-> 0, s |-> ""]
JNull == [t |-> "null", n |-> 0, s |-> ""]
JInt(n) == [t |-> "int", n |-> n, s |-> ""]
JStr(s) == [t |-> "str", n |-> 0, s |-> s]

\* The Python value data.get(key) returns for a member: None for an absent key
\* and for null.
PyNone == [t |-> "none", n |-> 0, s |-> ""]
DictGet(member) ==
    IF member.t \in {"absent", "null"} THEN PyNone ELSE member

\* Python truthiness: not None, not 0, not "".
Truthy(v) ==
    CASE v.t = "int" -> v.n # 0
      [] v.t = "str" -> v.s # ""
      [] OTHER -> FALSE

UserIdMembers == {JAbsent, JNull} \cup {JInt(n) : n \in 0..MaxUserId}
UsernameMembers == {JAbsent, JNull, JStr(""), JStr("Alice"), JStr("Bob")}

(* ------------------------------ requests ------------------------------ *)

\* A POST /api/submit: the header, whether the content type is JSON, and the body:
\* not parseable, the JSON null, a JSON array, or a JSON object with its members.
SubmitInputs ==
    {[kind |-> "submit", header |-> h, is_json |-> j, body |-> b,
      userId |-> JAbsent, username |-> JAbsent] :
        h \in Headers, j \in BOOLEAN, b \in {"malformed", "null", "array"}}
    \cup
    {[kind |-> "submit", header |-> h, is_json |-> j, body |-> "object",
      userId |-> u, username |-> n] :
        h \in Headers, j \in BOOLEAN, u \in UserIdMembers, n \in UsernameMembers}

\* A GET /api/stats or /api/list: the header only.
ReadInputs ==
    {[kind |-> k, header |-> h, is_json |-> FALSE, body |-> "none",
      userId |-> JAbsent, username |-> JAbsent] :
        k \in {"stats", "list"}, h \in Headers}

Inputs == SubmitInputs \cup ReadInputs

\* The requests drawn when several run at once: with or without the header, JSON
\* objects with a userId (0 included) and a non-empty username, and the reads.
ConcurrentInputs ==
    {i \in Inputs :
        /\ i.header # Some("wrong")
        /\ i.kind = "submit" =>
              /\ i.is_json
              /\ i.body = "object"
              /\ i.userId.t = "int"
              /\ Truthy(i.username)}

NoInput == [kind |-> "none", header |-> None, is_json |-> FALSE, body |-> "none",
            userId |-> JAbsent, username |-> JAbsent]

\* A row of feedback; id 0 stands for no row.
NoRow == [id |-> 0, username |-> "", userId |-> 0]

\* What happened on the connection of a request.
NoConn == [opened |-> FALSE, body_exc |-> "", commit_calls |-> 0,
           committed |-> FALSE, rollback_calls |-> 0, close_calls |-> 0,
           failed |-> FALSE]

\* A response: the HTTP status, the "success" member ("absent" when the body has
\* none), the "reason" or "error" member, the exception that escaped the handler
\* (Flask then answers 500 with its own page), and the payload of stats and list.
Response(status, success, reason) ==
    [status |-> status, success |-> success, reason |-> reason, escaped |-> "",
     total |-> -1, submissions |-> << >>]
NoResp == Response(0, "absent", "")
Escaped(exc) == [Response(500, "absent", "") EXCEPT !.escaped = exc]

IdleReq == [pc |-> "idle", in |-> NoInput, user_id |-> 0, username |-> "",
            row |-> NoRow, before |-> {}, overlap |-> {}, conn |-> NoConn,
            resp |-> NoResp]

(* ---------------------------- authorization ---------------------------- *)
\* Mutant: a request without the header passes the check.
UnauthorizedHeaderOptional(secret, auth_header) ==
    /\ secret # None
    /\ secret # Some("")
    /\ auth_header # None
    /\ auth_header # secret

\* if API_SECRET and auth_header != API_SECRET
Unauthorized(secret, auth_header) ==
    /\ secret # None
    /\ secret # Some("")
    /\ auth_header # secret

(* ------------------------------- get_db -------------------------------- *)
\* Mutant: conn.commit() is missing, the connection closes on an open transaction.
GetDbExitNoCommit(body_exc, commit_fails, rollback_fails) ==
    IF body_exc = ""
    THEN [commit_calls |-> 0, committed |-> FALSE, rollback_calls |-> 0,
          close_calls |-> 1, raised |-> ""]
    ELSE [commit_calls |-> 0, committed |-> FALSE, rollback_calls |-> 1,
          close_calls |-> 1,
          raised |-> IF rollback_fails THEN "InterfaceError" ELSE body_exc]

\* Mutant: conn.close() follows the try statement instead of standing in its finally
\* clause, so an exception leaves the connection open.
GetDbExitNoFinally(body_exc, commit_fails, rollback_fails) ==
    IF body_exc = "" /\ ~commit_fails
    THEN [commit_calls |-> 1, committed |-> TRUE, rollback_calls |-> 0,
          close_calls |-> 1, raised |-> ""]
    ELSE [commit_calls |-> IF body_exc = "" THEN 1 ELSE 0,
          committed |-> FALSE,
          rollback_calls |-> 1,
          close_calls |-> 0,
          raised |-> IF rollback_fails THEN "InterfaceError"
                     ELSE IF body_exc = "" THEN "OperationalError"
                     ELSE body_exc]

\* Mutant: the except clause rolls back and does not raise again.
GetDbExitSwallow(body_exc, commit_fails, rollback_fails) ==
    IF body_exc = "" /\ ~commit_fails
    THEN [commit_calls |-> 1, committed |-> TRUE, rollback_calls |-> 0,
          close_calls |-> 1, raised |-> ""]
    ELSE [commit_calls |-> IF body_exc = "" THEN 1 ELSE 0,
          committed |-> FALSE,
          rollback_calls |-> 1,
          close_calls |-> 1,
          raised |-> IF rollback_fails THEN "InterfaceError" ELSE ""]

\* The exit of "with get_db() as conn" once the body has ended with body_exc ("" for
\* a normal end): the calls made on the connection and the exception that leaves
\* the with statement.
GetDbExit(body_exc, commit_fails, rollback_fails) ==
    IF body_exc = "" /\ ~commit_fails
    THEN [commit_calls |-> 1, committed |-> TRUE, rollback_calls |-> 0,
          close_calls |-> 1, raised |-> ""]
    ELSE [commit_calls |-> IF body_exc = "" THEN 1 ELSE 0,
          committed |-> FALSE,
          rollback_calls |-> 1,
          close_calls |-> 1,
          raised |-> IF rollback_fails THEN "InterfaceError"
                     ELSE IF body_exc = "" THEN "OperationalError"
                     ELSE body_exc]

\* The connection record after the exit x of a body that ended with body_exc.
Closed(conn, body_exc, x, storage_failed) ==
    [conn EXCEPT !.body_exc = body_exc,
                 !.commit_calls = x.commit_calls,
                 !.committed = x.committed,
                 !.rollback_calls = x.rollback_calls,
                 !.close_calls = x.close_calls,
                 !.failed = storage_failed]

(* ------------------------------ handlers ------------------------------- *)

\* submit before it touches the storage: the response it returns, or NoResp when it
\* goes on to the INSERT.  A body that parses to something other than an object
\* (null, an array) has no get: data.get raises AttributeError outside any try.
SubmitLocal(secret, i) ==
    IF Unauthorized(secret, i.header)
    THEN Response(401, "false", "unauthorized")
    ELSE IF ~i.is_json
    THEN Response(400, "false", "invalid_content_type")
    ELSE IF i.body = "malformed"
    THEN Response(400, "false", "invalid_json")
    ELSE IF i.body # "object"
    THEN Escaped("AttributeError")
    ELSE IF ~Truthy(DictGet(i.userId)) \/ ~Truthy(DictGet(i.username))
    THEN Response(400, "false", "missing_required_fields")
    ELSE NoResp

\* stats and list_submissions before they touch the storage.
ReadLocal(secret, i) ==
    IF Unauthorized(secret, i.header)
    THEN Response(401, "absent", "unauthorized")
    ELSE NoResp
\* Mutant: no except clause for IntegrityError, a duplicate is an internal error.
SubmitOutcomeNoDup(raised) ==
    IF raised = "" THEN Response(200, "true", "")
    ELSE Response(500, "false", "internal_error")

\* Mutant: a duplicate is answered as a success.
SubmitOutcomeDupOk(raised) ==
    IF raised = "" \/ raised = "IntegrityError" THEN Response(200, "true", "")
    ELSE Response(500, "false", "internal_error")

\* submit's response for the exception that left its with statement ("" for none).
SubmitOutcome(raised) ==
    IF raised = "" THEN Response(200, "true", "")
    ELSE IF raised = "IntegrityError"
    THEN Response(200, "false", "already_submitted")
    ELSE Response(500, "false", "internal_error")

\* ORDER BY id DESC LIMIT limit
RECURSIVE ListRecent(_, _)
ListRecent(rows, limit) ==
    IF rows = {} \/ limit = 0 THEN << >>
    ELSE LET top == CHOOSE r \in rows : \A o \in rows : o.id <= r.id
         IN <<top>> \o ListRecent(rows \ {top}, limit - 1)

\* The response of stats or list_submissions for the exception that left its with
\* statement, over the rows its SELECT read.
ReadOutcome(kind, raised, rows) ==
    IF raised # "" THEN Response(500, "absent", "internal_error")
    ELSE IF kind = "stats"
    THEN [Response(200, "absent", "") EXCEPT !.total = Cardinality(rows)]
    ELSE LET results == ListRecent(rows, ListLimit)
         IN [Response(200, "absent", "") EXCEPT !.submissions = results,
                                                !.total = Len(results)]

(* ------------------------------- storage ------------------------------- *)
\* Mutant: the column is declared without UNIQUE.
UniqueViolationNever(rows, username, user_id) == FALSE

\* Mutant: UNIQUE stands on the username column.
UniqueOnUsername(rows, username, user_id) ==
    \E row \in rows : row.username = username

\* userId BIGINT UNIQUE: a committed row with the userId.
UniqueViolation(rows, username, user_id) ==
    \E row \in rows : row.userId = user_id

\* The requests that hold a connection.
InFlight == {r \in Req : req[r].pc \in {"execute", "commit"}}

\* The rows other transactions have inserted and not yet committed.
Pending(r) ==
    {req[s].row : s \in {t \in Req \ {r} : req[t].pc = "commit"}}
\* Mutant: the INSERT does not wait for the uncommitted row of another transaction.
InsertOutcomeNoWait(table_exists, rows, pending, username, user_id) ==
    IF ~table_exists THEN "ProgrammingError"
    ELSE IF UniqueViolation(rows, username, user_id) THEN "IntegrityError"
    ELSE ""

\* The INSERT of (username, user_id): the exception it raises, "" when the row is
\* inserted, "wait" while an uncommitted row of another transaction holds the key.
InsertOutcome(table_exists, rows, pending, username, user_id) ==
    IF ~table_exists THEN "ProgrammingError"
    ELSE IF UniqueViolation(rows, username, user_id) THEN "IntegrityError"
    ELSE IF UniqueViolation(pending, username, user_id) THEN "wait"
    ELSE ""

(* -------------------------------- state -------------------------------- *)

Init ==
    /\ API_SECRET \in Secrets
    /\ schema = FALSE
    /\ feedback = {}
    /\ seq = 0
    /\ startup = [pc |-> "boot", conn |-> NoConn, error |-> FALSE]
    /\ req = [r \in Req |-> IdleReq]
    /\ successes = 0

\* init_db at import, and the try around it that logs and swallows its failure.
InitDb ==
    /\ startup.pc = "boot"
    /\ \E connect_fails \in BOOLEAN :
        IF connect_fails
        THEN /\ startup' = [pc |-> "serving",
                            conn |-> [NoConn EXCEPT !.failed = TRUE],
                            error |-> TRUE]
             /\ UNCHANGED schema
        ELSE \E execute_fails, commit_fails, rollback_fails \in BOOLEAN :
             LET exc == IF execute_fails THEN "OperationalError" ELSE ""
                 x == GetDbExit(exc, commit_fails, rollback_fails)
                 bad == execute_fails \/ (exc = "" /\ commit_fails)
                        \/ (x.rollback_calls > 0 /\ rollback_fails)
             IN /\ startup' = [pc |-> "serving",
                               conn |-> Closed([NoConn EXCEPT !.opened = TRUE],
                                               exc, x, bad),
                               error |-> x.raised # ""]
                /\ schema' = (schema \/ x.committed)
    /\ UNCHANGED <<API_SECRET, feedback, seq, req, successes>>

\* submit, lines 72-101: the local checks, then psycopg2.connect.
SubmitBegin(r, i) ==
    /\ startup.pc = "serving"
    /\ req[r].pc = "idle"
    /\ i.kind = "submit"
    /\ LET local == SubmitLocal(API_SECRET, i)
           begun == [IdleReq EXCEPT !.in = i, !.before = feedback,
                                   !.overlap = InFlight]
       IN IF local # NoResp
          THEN req' = [req EXCEPT ![r] = [begun EXCEPT !.pc = "done",
                                                       !.resp = local]]
          ELSE \E connect_fails \in BOOLEAN :
               IF connect_fails
               THEN req' = [req EXCEPT ![r] =
                              [begun EXCEPT !.pc = "done",
                                            !.user_id = DictGet(i.userId).n,
                                            !.username = DictGet(i.username).s,
                                            !.conn.failed = TRUE,
                                            !.resp = SubmitOutcome("OperationalError")]]
               ELSE req' = [req EXCEPT ![r] =
                              [begun EXCEPT !.pc = "execute",
                                            !.user_id = DictGet(i.userId).n,
                                            !.username = DictGet(i.username).s,
                                            !.conn.opened = TRUE]]
    /\ UNCHANGED <<API_SECRET, schema, feedback, seq, startup, successes>>

\* submit, lines 102-106: the INSERT, and the exit of the with statement when it
\* raises.
SubmitExecute(r) ==
    /\ req[r].pc = "execute"
    /\ req[r].in.kind = "submit"
    /\ \E execute_fails \in BOOLEAN :
        LET exc == IF execute_fails THEN "OperationalError"
                   ELSE InsertOutcome(schema, feedback, Pending(r),
                                      req[r].username, req[r].user_id)
        IN /\ exc # "wait"
           /\ IF exc = ""
              THEN /\ seq < MaxSeq
                   /\ seq' = seq + 1
                   /\ req' = [req EXCEPT ![r].pc = "commit",
                                         ![r].row = [id |-> seq + 1,
                                                     username |-> req[r].username,
                                                     userId |-> req[r].user_id]]
                   /\ UNCHANGED successes
              ELSE \E rollback_fails \in BOOLEAN :
                   LET x == GetDbExit(exc, FALSE, rollback_fails)
                       bad == exc # "IntegrityError" \/ rollback_fails
                   IN /\ IF exc = "IntegrityError"
                         THEN seq < MaxSeq /\ seq' = seq + 1
                         ELSE UNCHANGED seq
                      /\ req' = [req EXCEPT ![r].pc = "done",
                                            ![r].conn = Closed(req[r].conn, exc, x, bad),
                                            ![r].resp = SubmitOutcome(x.raised)]
                      /\ successes' = IF SubmitOutcome(x.raised).success = "true"
                                      THEN successes + 1 ELSE successes
    /\ UNCHANGED <<API_SECRET, schema, feedback, startup>>

\* submit, lines 108-125: the body returns its response, the with statement exits
\* (commit, or rollback when the commit raises, then close) and the handler maps the
\* exception, if any.
SubmitCommit(r) ==
    /\ req[r].pc = "commit"
    /\ \E commit_fails, rollback_fails \in BOOLEAN :
        LET x == GetDbExit("", commit_fails, rollback_fails)
            resp == SubmitOutcome(x.raised)
        IN /\ feedback' = IF x.committed THEN feedback \cup {req[r].row} ELSE feedback
           /\ successes' = IF resp.success = "true" THEN successes + 1 ELSE successes
           /\ req' = [req EXCEPT ![r].pc = "done",
                                 ![r].conn = Closed(req[r].conn, "", x, ~x.committed),
                                 ![r].resp = resp]
    /\ UNCHANGED <<API_SECRET, schema, seq, startup>>

\* stats and list_submissions: the header check, then psycopg2.connect.
ReadBegin(r, i) ==
    /\ startup.pc = "serving"
    /\ req[r].pc = "idle"
    /\ i.kind \in {"stats", "list"}
    /\ LET local == ReadLocal(API_SECRET, i)
           begun == [IdleReq EXCEPT !.in = i, !.before = feedback,
                                   !.overlap = InFlight]
       IN IF local # NoResp
          THEN req' = [req EXCEPT ![r] = [begun EXCEPT !.pc = "done",
                                                       !.resp = local]]
          ELSE \E connect_fails \in BOOLEAN :
               IF connect_fails
               THEN req' = [req EXCEPT ![r] =
                              [begun EXCEPT !.pc = "done",
                                            !.conn.failed = TRUE,
                                            !.resp = ReadOutcome(i.kind,
                                                        "OperationalError", {})]]
               ELSE req' = [req EXCEPT ![r] = [begun EXCEPT !.pc = "execute",
                                                            !.conn.opened = TRUE]]
    /\ UNCHANGED <<API_SECRET, schema, feedback, seq, startup, successes>>

\* stats and list_submissions: the SELECT over the committed rows, the exit of the
\* with statement and the response.
ReadExecute(r) ==
    /\ req[r].pc = "execute"
    /\ req[r].in.kind \in {"stats", "list"}
    /\ \E execute_fails, commit_fails, rollback_fails \in BOOLEAN :
        LET exc == IF execute_fails THEN "OperationalError"
                   ELSE IF ~schema THEN "ProgrammingError"
                   ELSE ""
            x == GetDbExit(exc, commit_fails, rollback_fails)
        IN req' = [req EXCEPT ![r].pc = "done",
                              ![r].conn = Closed(req[r].conn, exc, x, ~x.committed),
                              ![r].resp = ReadOutcome(req[r].in.kind, x.raised, feedback)]
    /\ UNCHANGED <<API_SECRET, schema, feedback, seq, startup, successes>>

\* The response is sent and the slot serves the next request.
Respond(r) ==
    /\ req[r].pc = "done"
    /\ req' = [req EXCEPT ![r] = IdleReq]
    /\ UNCHANGED <<API_SECRET, schema, feedback, seq, startup, successes>>

AllIdle == \A r \in Req : req[r].pc = "idle"

\* Up to MaxReq requests in flight at once, each slot serving one request.
Next ==
    \/ InitDb
    \/ \E r \in Req :
        \/ \E i \in ConcurrentInputs : SubmitBegin(r, i)
        \/ \E i \in ConcurrentInputs : ReadBegin(r, i)
        \/ SubmitExecute(r)
        \/ SubmitCommit(r)
        \/ ReadExecute(r)

Spec == Init /\ [][Next]_vars

\* One request at a time, any number of them, over every input.
NextSeq ==
    \/ InitDb
    \/ \E r \in Req :
        \/ AllIdle /\ \E i \in Inputs : SubmitBegin(r, i)
        \/ AllIdle /\ \E i \in Inputs : ReadBegin(r, i)
        \/ SubmitExecute(r)
        \/ SubmitCommit(r)
        \/ ReadExecute(r)
        \/ Respond(r)

SpecSeq == Init /\ [][NextSeq]_vars

(* ------------------------------- claims -------------------------------- *)

Done(r) == req[r].pc = "done"
IsSubmit(r) == req[r].in.kind = "submit"
UserIdsOf(rows) == {row.userId : row \in rows}

\* The configured secret is a non-empty string.
SecretSet == Len(API_SECRET) = 1 /\ API_SECRET[1] # ""
\* The request carries the header the configuration asks for, if it asks for one.
HeaderAccepted(r) == SecretSet => req[r].in.header = API_SECRET

\* The body is a JSON object sent as JSON.
JsonObject(i) == i.is_json /\ i.body = "object"
\* userId is a non-zero integer and username a non-empty string.
ValidPair(i) ==
    /\ JsonObject(i)
    /\ i.userId.t = "int" /\ i.userId.n # 0
    /\ i.username.t = "str" /\ i.username.s # ""

Success == Response(200, "true", "")
AlreadySubmitted == Response(200, "false", "already_submitted")
InternalError == Response(500, "false", "internal_error")
MissingFields == Response(400, "false", "missing_required_fields")

\* C1: in every reachable state the feedback table holds at most one record per
\* userId.
C1_OneRecordPerUserId ==
    \A a, b \in feedback : a.userId = b.userId => a = b

\* Two requests for the same userId, none stored when either began, have both
\* finished and one row is stored.
C1_Witness ==
    \E r, s \in Req :
        /\ r # s /\ Done(r) /\ Done(s) /\ IsSubmit(r) /\ IsSubmit(s)
        /\ req[r].user_id = req[s].user_id
        /\ req[r].before = {} /\ req[s].before = {}
        /\ req[r].resp = Success
        /\ req[s].row # NoRow \/ req[s].resp = AlreadySubmitted
        /\ Cardinality(feedback) = 1

\* C2: an authorized submit of a valid pair whose userId is not yet stored, with no
\* storage failure, returns {success:true}/200 and adds exactly one record, which
\* carries that userId and username.
C2_FirstSubmitPersists ==
    \A r \in Req :
        (/\ Done(r) /\ IsSubmit(r) /\ HeaderAccepted(r)
         /\ ValidPair(req[r].in)
         /\ req[r].in.userId.n \notin UserIdsOf(req[r].before)
         /\ ~req[r].conn.failed)
        => /\ req[r].resp = Success
           /\ \E row \in feedback :
                /\ row \notin req[r].before
                /\ row.userId = req[r].in.userId.n
                /\ row.username = req[r].in.username.s
                /\ feedback = req[r].before \cup {row}

\* A second userId has been submitted with success.
C2_Witness ==
    \E r \in Req :
        /\ Done(r) /\ IsSubmit(r) /\ ValidPair(req[r].in)
        /\ ~req[r].conn.failed
        /\ Cardinality(req[r].before) = 1
        /\ req[r].in.userId.n \notin UserIdsOf(req[r].before)
        /\ req[r].resp = Success
        /\ Cardinality(feedback) = 2

\* The submit calls for a userId that was stored when they began, sent as a JSON
\* object with a string for username.
Repeat(r) ==
    /\ Done(r) /\ IsSubmit(r) /\ HeaderAccepted(r)
    /\ JsonObject(req[r].in)
    /\ req[r].in.userId.t = "int"
    /\ req[r].in.userId.n \in UserIdsOf(req[r].before)
    /\ req[r].in.username.t = "str"

\* C3 as stated: a repeat authorized submit with any username returns
\* already_submitted/200 and leaves the table unchanged.
C3_AsStated ==
    \A r \in Req :
        Repeat(r) => req[r].resp = AlreadySubmitted /\ feedback = req[r].before

\* C3: a repeat authorized submit with a non-empty username and no storage failure
\* returns already_submitted/200, and a repeat submit, whatever it returns, leaves
\* the table as it was.
C3_RepeatSubmit ==
    \A r \in Req :
        Repeat(r) =>
            /\ feedback = req[r].before
            /\ (req[r].in.username.s # "" /\ ~req[r].conn.failed)
                  => req[r].resp = AlreadySubmitted

\* A repeat with another username than the stored one was answered
\* already_submitted.
C3_Witness ==
    \E r \in Req :
        /\ Repeat(r)
        /\ req[r].resp = AlreadySubmitted
        /\ \E row \in feedback :
              /\ row.userId = req[r].in.userId.n
              /\ row.username # req[r].in.username.s

\* The finished valid authorized submits for userId u that began before u was
\* stored.
Rivals(u) ==
    {r \in Req :
        /\ Done(r) /\ IsSubmit(r) /\ HeaderAccepted(r)
        /\ ValidPair(req[r].in)
        /\ req[r].user_id = u
        /\ u \notin UserIdsOf(req[r].before)}

\* One began while the other held its connection.
Concurrent(r, s) == r \in req[s].overlap \/ s \in req[r].overlap

Winners(u) == {r \in Rivals(u) : req[r].resp = Success}
Losers(u) == {r \in Rivals(u) : req[r].resp = AlreadySubmitted}

\* The INSERT of the request ran on a connection of its own and either inserted
\* the row or met the duplicate key.
Inserted(r) ==
    req[r].conn.opened /\ req[r].conn.body_exc \in {"", "IntegrityError"}

\* C4 as stated: of two or more concurrent valid authorized submits for one userId
\* not yet stored, each with its own connection, INSERT and commit, exactly one
\* returns success and every other already_submitted.
C4_AsStated ==
    \A u \in 1..MaxUserId :
        (/\ \A r \in Rivals(u) : Inserted(r)
         /\ \E r, s \in Rivals(u) : r # s /\ Concurrent(r, s))
        => /\ Cardinality(Winners(u)) = 1
           /\ Winners(u) \cup Losers(u) = Rivals(u)

\* C4: of the valid authorized submits for one userId not yet stored, when no
\* storage call of any of them failed, exactly one returns success and every other
\* already_submitted; so one with no rival for its userId succeeds, whatever the
\* requests for other userIds do.
C4_ConcurrentSubmits ==
    \A u \in 1..MaxUserId :
        (Rivals(u) # {} /\ \A r \in Rivals(u) : ~req[r].conn.failed)
        => /\ Cardinality(Winners(u)) = 1
           /\ Winners(u) \cup Losers(u) = Rivals(u)

\* Two concurrent submits for one userId: one won, the other had inserted nothing
\* and was answered already_submitted.
C4_Witness ==
    \E r, s \in Req :
        /\ r # s
        /\ r \in Rivals(req[r].user_id) /\ s \in Rivals(req[r].user_id)
        /\ Concurrent(r, s)
        /\ ~req[r].conn.failed /\ ~req[s].conn.failed
        /\ req[r].resp = Success
        /\ req[s].resp = AlreadySubmitted

\* C5: with a non-empty secret configured, a request whose X-API-Secret is absent
\* or differs receives 401 whatever its content type and body, opens no connection
\* and writes no row; with no secret configured no request receives 401.
C5_Unauthorized ==
    \A r \in Req :
        /\ (req[r].pc # "idle" /\ SecretSet /\ req[r].in.header # API_SECRET)
            => /\ Done(r)
               /\ req[r].resp.status = 401
               /\ req[r].resp.reason = "unauthorized"
               /\ ~req[r].conn.opened
               /\ req[r].row = NoRow
               /\ feedback = req[r].before
        /\ (req[r].pc # "idle" /\ ~SecretSet) => req[r].resp.status # 401

\* A valid pair sent without the header was refused.
C5_Witness ==
    \E r \in Req :
        /\ Done(r) /\ IsSubmit(r) /\ ValidPair(req[r].in)
        /\ req[r].in.header = None
        /\ req[r].resp.status = 401

\* C6: an authorized submit with JSON content type and a parseable body in which
\* userId or username is missing or falsy, or which is not an object carrying them,
\* returns missing_required_fields/400 and writes no row.
C6_MissingFields ==
    \A r \in Req :
        (/\ Done(r) /\ IsSubmit(r) /\ HeaderAccepted(r)
         /\ req[r].in.is_json
         /\ req[r].in.body # "malformed"
         /\ \/ req[r].in.body # "object"
            \/ req[r].in.userId.t \in {"absent", "null"}
            \/ req[r].in.userId = JInt(0)
            \/ req[r].in.username.t \in {"absent", "null"}
            \/ req[r].in.username = JStr(""))
        => /\ req[r].resp = MissingFields
           /\ req[r].row = NoRow
           /\ feedback = req[r].before

\* C7: the total a successful stats call returns is the number of submit calls that
\* returned success, which is the number of distinct userIds stored; a submit that
\* does not return success leaves it as it is.
C7_StatsCount ==
    /\ successes = Cardinality(UserIdsOf(feedback))
    /\ \A r \in Req :
        /\ (Done(r) /\ req[r].in.kind = "stats" /\ req[r].resp.status = 200)
            => req[r].resp.total = successes
        /\ (Done(r) /\ IsSubmit(r) /\ req[r].resp # Success)
            => feedback = req[r].before

\* stats returned 2 after two submits had succeeded.
C7_Witness ==
    \E r \in Req :
        /\ Done(r) /\ req[r].in.kind = "stats"
        /\ req[r].resp.status = 200
        /\ req[r].resp.total = 2
        /\ successes = 2

SubmitOutcomes ==
    {Response(401, "false", "unauthorized"),
     Response(400, "false", "invalid_content_type"),
     Response(400, "false", "invalid_json"),
     MissingFields, Success, AlreadySubmitted, InternalError}

\* C8: every request ends in one of the tabulated outcomes, no exception escapes a
\* handler, and a storage failure other than a duplicate key gives
\* internal_error/500.
C8_TabulatedOutcomes ==
    \A r \in Req :
        Done(r) =>
            /\ req[r].resp.escaped = ""
            /\ IsSubmit(r) => req[r].resp \in SubmitOutcomes
            /\ ~IsSubmit(r) =>
                  \/ req[r].resp.status = 200
                  \/ req[r].resp.status = 401 /\ req[r].resp.reason = "unauthorized"
                  \/ req[r].resp.status = 500 /\ req[r].resp.reason = "internal_error"
            /\ req[r].conn.failed =>
                  req[r].resp.status = 500 /\ req[r].resp.reason = "internal_error"

\* The connection of init_db, once it has run, and of each finished request.
Released ==
    {startup.conn : x \in {y \in {1} : startup.pc = "serving"}}
    \cup {req[r].conn : r \in {t \in Req : Done(t)}}

\* C9: a connection get_db acquired is closed exactly once when the request
\* finishes, whether the body returned or raised and whether commit or rollback
\* raised; it is committed only after a body that did not raise, and rolled back
\* otherwise; a request still running has not closed it.
C9_ConnectionReleased ==
    /\ \A c \in Released :
        /\ c.opened => c.close_calls = 1
        /\ ~c.opened => c.close_calls = 0 /\ c.commit_calls = 0 /\ c.rollback_calls = 0
        /\ c.committed => c.body_exc = "" /\ c.commit_calls = 1 /\ c.rollback_calls = 0
        /\ (c.opened /\ c.body_exc # "") => c.commit_calls = 0 /\ c.rollback_calls = 1
        /\ (c.opened /\ ~c.committed) => c.rollback_calls = 1
    /\ \A r \in Req :
        /\ req[r].pc \in {"execute", "commit"} =>
              req[r].conn.opened /\ req[r].conn.close_calls = 0
        /\ (Done(r) /\ req[r].conn.opened /\ ~req[r].conn.committed) =>
              req[r].resp.status = 500 \/ req[r].resp = AlreadySubmitted
    /\ (startup.pc = "serving" /\ ~startup.conn.committed) => startup.error

\* The INSERT raised the duplicate key error and the rollback raised too: the
\* connection was closed once.
C9_Witness ==
    \E r \in Req :
        /\ Done(r)
        /\ req[r].conn.body_exc = "IntegrityError"
        /\ req[r].resp = InternalError
        /\ req[r].conn.rollback_calls = 1
        /\ req[r].conn.close_calls = 1

\* C10: submit returns success only if its transaction was committed and its row is
\* in the table; when the commit fails the caller receives internal_error/500 or
\* already_submitted and the row of the request is not in the table, nor is it
\* before the commit.
C10_SuccessOnlyIfCommitted ==
    \A r \in Req :
        /\ (Done(r) /\ IsSubmit(r) /\ req[r].resp.success = "true")
            => req[r].conn.committed /\ req[r].row \in feedback
        /\ (Done(r) /\ IsSubmit(r) /\ req[r].row # NoRow /\ ~req[r].conn.committed)
            => /\ req[r].resp \in {InternalError, AlreadySubmitted}
               /\ req[r].row \notin feedback
        /\ req[r].pc = "commit" => req[r].row \notin feedback

\* The INSERT succeeded, the commit failed: the caller got internal_error and the row
\* is not stored.
C10_Witness ==
    \E r \in Req :
        /\ Done(r) /\ IsSubmit(r)
        /\ req[r].row # NoRow
        /\ req[r].conn.commit_calls = 1
        /\ ~req[r].conn.committed
        /\ req[r].resp = InternalError
        /\ req[r].row \notin feedback

====
